---- MODULE Spec2Model ----
(***************************************************************************)
(* FileTypeOrganizer (organizer.py): the category table loader, the        *)
(* directory scanner, the extension classifier and the mover / planner,    *)
(* modelled as state machines over a small file system.                    *)
(*                                                                         *)
(* Strings are tuples of one-character strings, so that the extension      *)
(* extraction and the lowercasing are computed character by character.     *)
(***************************************************************************)
EXTENDS Integers, Sequences, FiniteSets, TLC

VARIABLES
  \* the classifier's locals (perform_organization, lines 151-165 and 212)
  filename, file_ext, verdict,
  \* the category table in use
  categories,
  \* the file system at target_dir: what the path is, the regular files and
  \* the directories directly in it, the entries <<directory, name, origin>>
  \* one level below, whether organizer.py itself lies in it
  target_kind, top_files, top_dirs, sub, script_here,
  \* the environment: files whose move the operating system refuses, files
  \* that another process may remove, and how many it has removed in this run
  fault, volatile, outside,
  \* one invocation of perform_organization / list_available_files
  pc, is_dry_run, files_to_organize, todo, records, run,
  \* history: the file system when this invocation began, the previous
  \* invocation, whether a file was handled after another one had failed
  fs_start, prev, after_failure,
  \* categories.json in the working directory: whether it exists, whether
  \* it can be opened, what it holds, whether the directory lets it be created
  config_exists, config_readable, config_content, cwd_writable,
  \* load_categories: where the call stands, what it returned, how many
  \* calls there were, and the file as the last call found it
  load_pc, loaded, loads, config_before,
  \* main's loop: where the shell stands, the last menu choice it read (after
  \* strip), the last path typed at the prompt for a specific folder, and how
  \* many lines of input it has consumed
  shell, choice, path, lines

----------------------------------------------------------------------------
(* Characters and str.lower()                                              *)

UpperCase == <<"A","B","C","D","E","F","G","H","I","J","K","L","M",
               "N","O","P","Q","R","S","T","U","V","W","X","Y","Z">>
LowerCase == <<"a","b","c","d","e","f","g","h","i","j","k","l","m",
               "n","o","p","q","r","s","t","u","v","w","x","y","z">>

LowerChar(c) ==
  IF \E i \in 1..Len(UpperCase) : UpperCase[i] = c
    THEN LowerCase[CHOOSE i \in 1..Len(UpperCase) : UpperCase[i] = c]
    ELSE c

\* a lookup that forgets to lowercase the file's extension
lower_Omitted(s) == s

\* str.lower() as the source applies it to the extension
lower(s) == [i \in 1..Len(s) |-> LowerChar(s[i])]

----------------------------------------------------------------------------
(* os.path.splitext(filename)[1] for a name without path separator:        *)
(* the text from the last "." on, unless only "." characters precede it.   *)

HasDot(p) == \E i \in 1..Len(p) : p[i] = "."

\* str.rfind: the highest index holding ch, 0 when there is none
RECURSIVE rfind(_, _, _)
rfind(p, ch, i) ==
  IF i = 0 THEN 0
  ELSE IF p[i] = ch THEN i
  ELSE rfind(p, ch, i - 1)

\* the loop of genericpath._splitext that skips the leading dots
RECURSIVE SkipLeadingDots(_, _, _)
SkipLeadingDots(p, filenameIndex, dotIndex) ==
  IF filenameIndex >= dotIndex THEN <<>>
  ELSE IF p[filenameIndex] # "." THEN SubSeq(p, dotIndex, Len(p))
  ELSE SkipLeadingDots(p, filenameIndex + 1, dotIndex)

\* an extraction that cuts at the first period instead of the last
splitext_FirstDot(p) ==
  IF HasDot(p)
    THEN LET first == CHOOSE i \in 1..Len(p) :
                        p[i] = "." /\ \A j \in 1..(i - 1) : p[j] # "."
         IN  SubSeq(p, first, Len(p))
    ELSE <<>>

splitext(p) ==
  LET dotIndex == rfind(p, ".", Len(p))
  IN  IF dotIndex > 0 THEN SkipLeadingDots(p, 1, dotIndex) ELSE <<>>

\* line 153: file_ext = os.path.splitext(filename)[1].lower()
FileExt(name) == lower(splitext(name))

----------------------------------------------------------------------------
(* The category table: an ordered mapping, category name -> extensions     *)

Images    == <<"I","m","a","g","e","s">>
Documents == <<"D","o","c","u","m","e","n","t","s">>

\* lines 43-55
default_categories ==
  << [name |-> <<"I","m","a","g","e","s">>,
       exts |-> <<
         <<".","j","p","g">>, <<".","j","p","e","g">>, <<".","j","p","e">>, <<".","j","i","f">>,
         <<".","j","f","i","f">>, <<".","j","f","i">>, <<".","p","n","g">>, <<".","g","i","f">>,
         <<".","w","e","b","p">>, <<".","t","i","f","f">>, <<".","t","i","f">>,
         <<".","p","s","d">>, <<".","r","a","w">>, <<".","a","r","w">>, <<".","c","r","2">>,
         <<".","n","r","w">>, <<".","k","2","5">>, <<".","b","m","p">>, <<".","d","i","b">>,
         <<".","h","e","i","f">>, <<".","h","e","i","c">>, <<".","i","n","d">>,
         <<".","i","n","d","d">>, <<".","i","n","d","t">>, <<".","j","p","2">>,
         <<".","j","2","k">>, <<".","j","p","f">>, <<".","j","p","x">>, <<".","j","p","m">>,
         <<".","m","j","2">>, <<".","s","v","g">>, <<".","s","v","g","z">>, <<".","a","i">>,
         <<".","e","p","s">> >>],
     [name |-> <<"V","i","d","e","o","s">>,
       exts |-> <<
         <<".","w","e","b","m">>, <<".","m","p","g">>, <<".","m","p","2">>,
         <<".","m","p","e","g">>, <<".","m","p","e">>, <<".","m","p","v">>, <<".","o","g","g">>,
         <<".","m","p","4">>, <<".","m","4","p">>, <<".","m","4","v">>, <<".","a","v","i">>,
         <<".","w","m","v">>, <<".","m","o","v">>, <<".","q","t">>, <<".","f","l","v">>,
         <<".","s","w","f">>, <<".","a","v","c","h","d">> >>],
     [name |-> <<"A","u","d","i","o">>,
       exts |-> <<
         <<".","m","4","a">>, <<".","f","l","a","c">>, <<".","m","p","3">>, <<".","w","a","v">>,
         <<".","w","m","a">>, <<".","a","a","c">> >>],
     [name |-> <<"D","o","c","u","m","e","n","t","s">>,
       exts |-> <<
         <<".","d","o","c">>, <<".","d","o","c","x">>, <<".","o","d","t">>, <<".","p","d","f">>,
         <<".","x","l","s">>, <<".","x","l","s","x">>, <<".","o","d","s">>, <<".","p","p","t">>,
         <<".","p","p","t","x">>, <<".","o","d","p">>, <<".","t","x","t">>, <<".","r","t","f">>,
         <<".","m","d">> >>],
     [name |-> <<"A","r","c","h","i","v","e","s">>,
       exts |-> <<
         <<".","z","i","p">>, <<".","r","a","r">>, <<".","7","z">>, <<".","t","a","r">>,
         <<".","g","z">>, <<".","b","z","2">>, <<".","i","s","o">>, <<".","d","m","g">> >>],
     [name |-> <<"S","c","r","i","p","t","s">>,
       exts |-> <<
         <<".","p","y">>, <<".","j","s">>, <<".","t","s">>, <<".","h","t","m","l">>,
         <<".","h","t","m">>, <<".","c","s","s">>, <<".","s","c","s","s">>,
         <<".","j","a","v","a">>, <<".","c">>, <<".","c","p","p">>, <<".","h">>, <<".","c","s">>,
         <<".","s","h">>, <<".","b","a","t">>, <<".","p","h","p">>, <<".","g","o">>,
         <<".","s","w","i","f","t">>, <<".","s","q","l">>, <<".","j","s","o","n">>,
         <<".","x","m","l">>, <<".","y","m","l">>, <<".","y","a","m","l">> >>],
     [name |-> <<"E","x","e","c","u","t","a","b","l","e","s">>,
       exts |-> <<
         <<".","e","x","e">>, <<".","m","s","i">>, <<".","a","p","p">>, <<".","d","e","b">>,
         <<".","r","p","m">> >>],
     [name |-> <<"F","o","n","t","s">>,
       exts |-> <<
         <<".","t","t","f">>, <<".","o","t","f">>, <<".","w","o","f","f">>,
         <<".","w","o","f","f","2">> >>],
     [name |-> <<"D","a","t","a">>,
       exts |-> <<
         <<".","c","s","v">>, <<".","d","a","t">>, <<".","d","b">>, <<".","l","o","g">>,
         <<".","m","d","b">>, <<".","s","a","v">>, <<".","s","q","l","i","t","e">>,
         <<".","d","b","f">> >>],
     [name |-> <<"P","r","e","s","e","n","t","a","t","i","o","n","s">>,
       exts |-> <<
         <<".","p","p","t">>, <<".","p","p","t","x">>, <<".","o","d","p">>, <<".","k","e","y">> >>],
     [name |-> <<"S","p","r","e","a","d","s","h","e","e","t","s">>,
       exts |-> <<
         <<".","x","l","s">>, <<".","x","l","s","x">>, <<".","o","d","s">>, <<".","c","s","v">> >>] >>


\* "file_ext in extensions" for a list of extensions
InExtensions(ext, extensions) ==
  \E i \in 1..Len(extensions) : extensions[i] = ext

\* lines 163-165, 208-209: the first category, in the table's order, whose
\* list holds the extension; 0 when the loop ends with found_category False
RECURSIVE FirstMatch(_, _, _)
FirstMatch(table, ext, i) ==
  IF i > Len(table) THEN 0
  ELSE IF InExtensions(ext, table[i].exts) THEN i
  ELSE FirstMatch(table, ext, i + 1)

NoCategory == <<>>

\* a lookup without the "break": the last category listing the extension wins
Classify_LastMatch(name, table) ==
  LET ext == FileExt(name)
      S   == {k \in 1..Len(table) : InExtensions(ext, table[k].exts)}
  IN  IF ext = <<>> THEN [kind |-> "skipped-no-extension", category |-> NoCategory]
      ELSE IF S = {} THEN [kind |-> "skipped-unknown-type", category |-> NoCategory]
      ELSE [kind |-> "matched",
            category |-> table[CHOOSE k \in S : \A j \in S : j <= k].name]

\* the outcome of lines 153-165 and 212 for one file name, before any move
Classify(name, table) ==
  LET ext == FileExt(name)
      k   == FirstMatch(table, ext, 1)
  IN  IF ext = <<>> THEN [kind |-> "skipped-no-extension", category |-> NoCategory]
      ELSE IF k = 0 THEN [kind |-> "skipped-unknown-type", category |-> NoCategory]
      ELSE [kind |-> "matched", category |-> table[k].name]

----------------------------------------------------------------------------
(* The inputs of the classification of one file name                       *)

MaxNameLen == 5

Alphabet == {".", "j", "J", "p"}

RECURSIVE NamesOfLen(_)
NamesOfLen(n) ==
  IF n = 0 THEN {<<>>}
  ELSE {Append(s, c) : s \in NamesOfLen(n - 1), c \in Alphabet}

AllNames == UNION {NamesOfLen(n) : n \in 1..MaxNameLen}

\* tables a categories.json may hold: lowercase, with an uppercase entry,
\* with an extension listed under two categories
LowerTable ==
  << [name |-> Images,    exts |-> << <<".","j">> >>],
     [name |-> Documents, exts |-> << <<".","p">>, <<".","p","j">> >>] >>
MixedTable ==
  << [name |-> Images,    exts |-> << <<".","J">>, <<".","j","p">> >>],
     [name |-> Documents, exts |-> << <<".","p">> >>] >>
OverlapTable ==
  << [name |-> Images,    exts |-> << <<".","j">>, <<".","p">> >>],
     [name |-> Documents, exts |-> << <<".","p">>, <<".">> >>] >>

ClassifyTables == {LowerTable, MixedTable, OverlapTable}

NoVerdict == [kind |-> "none", category |-> NoCategory]

----------------------------------------------------------------------------
(* The target directory                                                    *)

a_jpg        == <<"a",".","j","p","g">>
A_JPG        == <<"A",".","J","P","G">>
b_pdf        == <<"b",".","p","d","f">>
c_mp4        == <<"c",".","m","p","4">>
d_mp3        == <<"d",".","m","p","3">>
e_py         == <<"e",".","p","y">>
f_zip        == <<"f",".","z","i","p">>
g            == <<"g">>
h_xyz        == <<"h",".","x","y","z">>
organizer_py == <<"o","r","g","a","n","i","z","e","r",".","p","y">>
r_csv        == <<"r",".","c","s","v">>
s_ppt        == <<"s",".","p","p","t">>
\* what the program itself keeps in its working directory
categories_json ==
  <<"c","a","t","e","g","o","r","i","e","s",".","j","s","o","n">>
logs        == <<"l","o","g","s">>
session_log == <<"o","r","g","a","n","i","z","e","r",".","l","o","g">>

Videos   == <<"V","i","d","e","o","s">>
Audio    == <<"A","u","d","i","o">>
Archives == <<"A","r","c","h","i","v","e","s">>
Scripts  == <<"S","c","r","i","p","t","s">>
Data          == <<"D","a","t","a">>
Presentations == <<"P","r","e","s","e","n","t","a","t","i","o","n","s">>
Spreadsheets  == <<"S","p","r","e","a","d","s","h","e","e","t","s">>

\* the table of test_perform_organization_dry_run
TestTable ==
  << [name |-> Images,    exts |-> << <<".","j","p","g">> >>],
     [name |-> Documents, exts |-> << <<".","p","d","f">> >>],
     [name |-> Videos,    exts |-> << <<".","m","p","4">> >>],
     [name |-> Audio,     exts |-> << <<".","m","p","3">> >>],
     [name |-> Scripts,   exts |-> << <<".","p","y">> >>],
     [name |-> Archives,  exts |-> << <<".","z","i","p">> >>] >>

\* a categories.json whose first category bears the name of a file
CustomTable ==
  << [name |-> a_jpg,  exts |-> << <<".","p","d","f">> >>],
     [name |-> Images, exts |-> << <<".","j","p","g">> >>] >>

MaxFiles  == 2
MaxPre    == 1
MaxFaults == 1
MaxRuns   == 2

\* names a directory may hold; "Images" is a file without extension here
PoolNames == {a_jpg, A_JPG, b_pdf, Images}
PoolDirs  == {Images, a_jpg}
\* names already present in a folder; files the environment may trouble
PreNames  == {a_jpg}
Troubled  == {a_jpg, b_pdf}
ExampleFiles == {a_jpg, b_pdf, c_mp4, d_mp3, e_py, f_zip, g, h_xyz}
\* files whose extension the default table lists under two categories
OverlapFiles == {r_csv, s_ppt}

\* Python's None as a scan result: a value that is no set of file names
None == {<<"None">>}

AnyName ==
  PoolNames \cup ExampleFiles \cup OverlapFiles
    \cup {organizer_py, categories_json}

NoRecords == [n \in {} |-> NoVerdict]

SmallSubsets(S, n) == {T \in SUBSET S : Cardinality(T) <= n}

----------------------------------------------------------------------------
(* get_files_to_organize, lines 81-101                                     *)

\* os.listdir(target_dir), line 85: the exception it raises, or "ok"
listdir(kind) ==
  CASE kind = "dir"     -> "ok"
    [] kind = "missing" -> "FileNotFoundError"
    [] kind = "notdir"  -> "NotADirectoryError"
    [] kind = "denied"  -> "PermissionError"

\* lines 83-88: only FileNotFoundError is caught; the result is None, the
\* names of the regular files other than the script (lines 90-101), or the
\* exception that leaves the function
get_files_to_organize(kind, files, script) ==
  LET e == listdir(kind)
  IN  IF e = "FileNotFoundError" THEN [raised |-> "no", value |-> None]
      ELSE IF e # "ok" THEN [raised |-> e, value |-> None]
      ELSE [raised |-> "no",
            value  |-> {n \in files : ~(script /\ n = organizer_py)}]

----------------------------------------------------------------------------
(* The move of one matched file, lines 178-206                             *)

\* a handler without the final "except OSError" clause
Handler_OSErrorUncaught(cls, already_exists) ==
  CASE cls = "PermissionError"   -> "error-permission"
    [] cls = "FileNotFoundError" -> "error-not-found"
    [] OTHER -> "uncaught"

\* a handler that reports every other OSError alike, collisions included
Handler_ExistsUnnoticed(cls, already_exists) ==
  CASE cls = "PermissionError"   -> "error-permission"
    [] cls = "FileNotFoundError" -> "error-not-found"
    [] OTHER -> "error-other"

\* the except clauses of lines 184-206, in their order: the record kind for
\* an exception of class cls whose message holds "already exists" or not
Handler(cls, already_exists) ==
  CASE cls = "PermissionError"   -> "error-permission"
    [] cls = "FileNotFoundError" -> "error-not-found"
    [] cls \in {"FileExistsError", "shutil.Error", "OSError"} ->
         IF already_exists THEN "skipped-exists" ELSE "error-other"
    [] OTHER -> "uncaught"

\* os.makedirs(dest_folder_path, exist_ok=True), line 179: a regular file at
\* the path is a FileExistsError ("File exists"), a directory there is fine
MakedirsFails(c) == c \in top_files

\* shutil.move refuses a destination name that exists: shutil.Error
\* "Destination path ... already exists"
Collides(c, name) == \E e \in sub : e[1] = c /\ e[2] = name

FaultOf(name) ==
  IF \E x \in fault : x[1] = name
    THEN (CHOOSE x \in fault : x[1] = name)[2]
    ELSE "none"

\* a move that leaves the source behind
MovedOutcome_SourceKept(name, c) ==
  [kind  |-> "moved",
   files |-> top_files,
   dirs  |-> top_dirs \cup {c},
   below |-> sub \cup {<<c, name, "top">>}]

\* line 180 when nothing fails: the file leaves target_dir for the folder
MovedOutcome(name, c) ==
  [kind  |-> "moved",
   files |-> top_files \ {name},
   dirs  |-> top_dirs \cup {c},
   below |-> sub \cup {<<c, name, "top">>}]

\* a dry run that has already made the destination folder
PlanOutcome_MakesFolder(name, c) ==
  [kind |-> "planned", files |-> top_files, dirs |-> top_dirs \cup {c}, below |-> sub]

\* lines 171-175: the dry run only reports the plan
PlanOutcome(name, c) ==
  [kind |-> "planned", files |-> top_files, dirs |-> top_dirs, below |-> sub]

\* shutil.copy in place of shutil.move: the source stays, and a file of the
\* same name in the folder is silently replaced
MoveOutcomes_Copy(name, c) ==
  IF c \in top_files
    THEN {[kind |-> "error-other", files |-> top_files, dirs |-> top_dirs, below |-> sub]}
    ELSE {[kind  |-> "moved",
           files |-> top_files,
           dirs  |-> top_dirs \cup {c},
           below |-> {e \in sub : ~(e[1] = c /\ e[2] = name)} \cup {<<c, name, "top">>}]}

\* lines 179-180 for file name and category c: the possible outcomes, each
\* with the record kind and the file system it leaves.  A refusal by the
\* operating system may come from makedirs (nothing done), or from the move
\* after the folder is made; a PermissionError of os.unlink comes after
\* shutil.move has copied the file, and leaves it in both places.
MoveOutcomes(name, c) ==
  LET same   == [kind |-> "?", files |-> top_files, dirs |-> top_dirs, below |-> sub]
      made   == [same EXCEPT !.dirs = top_dirs \cup {c}]
      f      == FaultOf(name)
      fkind  == IF f = "permission" THEN Handler("PermissionError", FALSE)
                ELSE Handler("OSError", FALSE)
  IN  IF MakedirsFails(c)
        THEN {[same EXCEPT !.kind = Handler("FileExistsError", FALSE)]}
      ELSE IF Collides(c, name)
        THEN {[made EXCEPT !.kind = Handler("shutil.Error", TRUE)]}
      ELSE IF name \notin top_files
        THEN {[made EXCEPT !.kind = Handler("FileNotFoundError", FALSE)]}
             \cup (IF f # "none" /\ c \notin top_dirs
                     THEN {[same EXCEPT !.kind = fkind]} ELSE {})
      ELSE IF f # "none"
        THEN {[made EXCEPT !.kind = fkind]}
             \cup (IF c \notin top_dirs THEN {[same EXCEPT !.kind = fkind]} ELSE {})
             \cup (IF f = "permission"
                     THEN {[made EXCEPT !.kind = fkind,
                                        !.below = sub \cup {<<c, name, "top">>}]}
                     ELSE {})
      ELSE {MovedOutcome(name, c)}

----------------------------------------------------------------------------
(* load_categories, lines 40-74                                            *)

MaxLoads == 2

vars == <<filename, file_ext, verdict, categories,
          target_kind, top_files, top_dirs, sub, script_here, fault, volatile,
          outside,
          pc, is_dry_run, files_to_organize, todo, records, run, fs_start, prev,
          after_failure,
          config_exists, config_readable, config_content, cwd_writable,
          load_pc, loaded, loads, config_before,
          shell, choice, path, lines>>

shvars == <<shell, choice, path, lines>>
fsvars == <<target_kind, top_files, top_dirs, sub, script_here, fault,
            volatile>>
clvars == <<filename, file_ext, verdict>>
ldvars == <<config_exists, config_readable, config_content, cwd_writable,
            load_pc, loaded, loads, config_before>>

\* what categories.json may hold: a JSON object of extension lists (a table),
\* a JSON object of something else, a JSON array, a JSON string, text that
\* is no JSON, bytes that are no UTF-8; or the path is a directory
Json(kind, table) == [kind |-> kind, table |-> table]
NoContent == Json("absent", <<>>)
ConfigContents ==
  {Json("table", T) : T \in {default_categories, CustomTable, LowerTable,
                              MixedTable, OverlapTable}}
  \cup {Json(k, <<>>) : k \in {"object", "array", "string", "malformed",
                               "undecodable", "directory"}}

NoValue == Json("none", <<>>)

\* lines 59-60: open(config_file, 'r', encoding='utf-8') and json.load(f);
\* the exception raised, or "ok"
ReadConfig(readable, content) ==
  IF content.kind = "directory" THEN "IsADirectoryError"
  ELSE IF ~readable THEN "PermissionError"
  ELSE IF content.kind = "undecodable" THEN "UnicodeDecodeError"
  ELSE IF content.kind = "malformed" THEN "JSONDecodeError"
  ELSE "ok"

\* line 71: except (json.JSONDecodeError, IOError)
Caught(exc) ==
  exc \in {"JSONDecodeError", "IsADirectoryError", "PermissionError", "OSError"}

\* a loader that repairs the file it could not load
load_categories_Repairs(exists, readable, content, writable) ==
  IF exists
    THEN LET e == ReadConfig(readable, content)
         IN  IF e = "ok"
               THEN [raised |-> "no", value |-> content,
                     exists |-> TRUE, content |-> content]
             ELSE IF Caught(e)
               THEN [raised |-> "no", value |-> Json("table", default_categories),
                     exists |-> TRUE, content |-> Json("table", default_categories)]
             ELSE [raised |-> e, value |-> NoValue,
                   exists |-> TRUE, content |-> content]
    ELSE IF writable
      THEN [raised |-> "no", value |-> Json("table", default_categories),
            exists |-> TRUE, content |-> Json("table", default_categories)]
      ELSE [raised |-> "no", value |-> Json("table", default_categories),
            exists |-> FALSE, content |-> content]

\* lines 57-74: the value returned or the exception raised, and the file
\* afterwards
load_categories(exists, readable, content, writable) ==
  IF exists
    THEN LET e == ReadConfig(readable, content)
         IN  IF e = "ok"
               THEN [raised |-> "no", value |-> content,
                     exists |-> TRUE, content |-> content]
             ELSE IF Caught(e)
               THEN [raised |-> "no", value |-> Json("table", default_categories),
                     exists |-> TRUE, content |-> content]
             ELSE [raised |-> e, value |-> NoValue,
                   exists |-> TRUE, content |-> content]
    ELSE IF writable
      THEN [raised |-> "no", value |-> Json("table", default_categories),
            exists |-> TRUE, content |-> Json("table", default_categories)]
      ELSE [raised |-> "no", value |-> Json("table", default_categories),
            exists |-> FALSE, content |-> content]

ConfigNow ==
  [exists |-> config_exists, readable |-> config_readable,
   content |-> config_content]

\* the loader is not part of the run
NotLoading ==
  /\ config_exists = FALSE /\ config_readable = TRUE
  /\ config_content = NoContent /\ cwd_writable = TRUE
  /\ load_pc = "idle" /\ loaded = NoValue /\ loads = 0
  /\ config_before = [exists |-> FALSE, readable |-> TRUE, content |-> NoContent]

\* the menu loop is not part of the run
ShellOff == shell = "off" /\ choice = <<>> /\ path = "none" /\ lines = 0

InitLoad ==
  /\ ShellOff
  /\ cwd_writable \in BOOLEAN
  /\ \/ config_exists = FALSE /\ config_readable = TRUE /\ config_content = NoContent
     \/ /\ config_exists = TRUE
        /\ config_readable \in BOOLEAN
        /\ config_content \in ConfigContents
  /\ load_pc = "start" /\ loaded = NoValue /\ loads = 0
  /\ config_before = ConfigNow
  /\ filename = <<>> /\ file_ext = <<>> /\ verdict = NoVerdict
  /\ categories = default_categories
  /\ target_kind = "dir" /\ top_files = {} /\ top_dirs = {} /\ sub = {}
  /\ script_here = FALSE /\ fault = {} /\ volatile = {} /\ outside = 0
  /\ pc = "load" /\ is_dry_run = TRUE /\ files_to_organize = None
  /\ todo = {} /\ records = NoRecords /\ run = 0
  /\ fs_start = <<>> /\ prev = <<>> /\ after_failure = FALSE

\* one call of load_categories (main, line 241; each start of the program)
LoadCategories ==
  /\ load_pc \in {"start", "returned"}
  /\ loads < MaxLoads
  /\ loads' = loads + 1
  /\ config_before' = ConfigNow
  /\ LET r == load_categories(config_exists, config_readable, config_content,
                              cwd_writable)
     IN  /\ load_pc' = IF r.raised = "no" THEN "returned" ELSE "raised"
         /\ loaded' = r.value
         /\ config_exists' = r.exists
         /\ config_content' = r.content
  /\ UNCHANGED <<config_readable, cwd_writable, categories, clvars, fsvars,
                 outside, pc, is_dry_run, files_to_organize, todo, records, run,
                 fs_start, prev, after_failure, shvars>>

NextLoad == LoadCategories

SpecLoad == InitLoad /\ [][NextLoad]_vars

----------------------------------------------------------------------------
(* perform_organization and list_available_files                           *)

Snapshot == [files |-> top_files, dirs |-> top_dirs, below |-> sub]

NoPrev == [pc |-> "none", dry |-> TRUE, records |-> NoRecords]

InitDirectory ==
  /\ target_kind = "dir"
  /\ categories \in {TestTable, CustomTable}
  /\ top_files \in SmallSubsets(PoolNames, MaxFiles)
  /\ sub \in {{<<e[1], e[2], "pre">> : e \in T} :
                T \in SmallSubsets((PoolDirs \ top_files) \X PreNames, MaxPre)}
  /\ top_dirs = {e[1] : e \in sub}
  /\ \E env \in SmallSubsets((top_files \cap Troubled)
                                \X {"permission", "oserror", "removed"},
                              MaxFaults) :
       /\ fault = {x \in env : x[2] # "removed"}
       /\ volatile = {x[1] : x \in {y \in env : y[2] = "removed"}}
  /\ script_here = FALSE

\* the directory of the documented example
InitExample ==
  /\ target_kind = "dir"
  /\ categories = default_categories
  /\ script_here = FALSE
  /\ top_files = ExampleFiles
  /\ top_dirs = {}
  /\ sub = {}
  /\ fault = {}
  /\ volatile = {}

\* a directory holding a file organizer.py, which is the running script or not
InitScript ==
  /\ target_kind = "dir"
  /\ categories = default_categories
  /\ script_here \in BOOLEAN
  /\ top_files \in {{organizer_py}, {organizer_py, a_jpg}}
  /\ top_dirs = {}
  /\ sub = {}
  /\ fault = {}
  /\ volatile = {}

\* a directory of files whose extension the default table lists twice;
\* the later category's folder may hold a file of the same name already
InitOverlap ==
  /\ target_kind = "dir"
  /\ categories = default_categories
  /\ script_here = FALSE
  /\ top_files \in (SUBSET OverlapFiles) \ {{}}
  /\ sub \in {{}, {<<Spreadsheets, r_csv, "pre">>}}
  /\ top_dirs = {e[1] : e \in sub}
  /\ fault = {}
  /\ volatile = {}

\* a path that is no listable directory
InitNoDirectory ==
  /\ target_kind \in {"missing", "notdir", "denied"}
  /\ categories = default_categories
  /\ top_files = {} /\ top_dirs = {} /\ sub = {} /\ fault = {} /\ volatile = {}
  /\ script_here = FALSE

Init ==
  /\ \/ InitDirectory \/ InitExample \/ InitScript \/ InitOverlap
     \/ InitNoDirectory
  /\ pc = "idle"
  /\ is_dry_run = TRUE
  /\ files_to_organize = None
  /\ todo = {}
  /\ records = NoRecords
  /\ run = 0
  /\ outside = 0
  /\ after_failure = FALSE
  /\ fs_start = Snapshot
  /\ prev = NoPrev
  /\ filename = <<>> /\ file_ext = <<>> /\ verdict = NoVerdict
  /\ NotLoading
  /\ ShellOff

Returned == pc \in {"done", "empty", "notfound", "listed"}

\* what the invocation that has just returned leaves for the next one
Remember == [pc |-> pc, dry |-> is_dry_run, records |-> records]

\* lines 121-148: the call, the scan, and the early returns
perform_organization(dry) ==
  /\ pc = "idle" \/ Returned
  /\ run < MaxRuns
  /\ run' = run + 1
  /\ prev' = IF pc = "idle" THEN NoPrev ELSE Remember
  /\ is_dry_run' = dry
  /\ fs_start' = Snapshot
  /\ outside' = 0
  /\ after_failure' = FALSE
  /\ records' = NoRecords
  /\ LET r == get_files_to_organize(target_kind, top_files, script_here)
     IN  /\ files_to_organize' = r.value
         /\ pc' = IF r.raised # "no" THEN "raised"
                  ELSE IF r.value = None THEN "notfound"
                  ELSE IF r.value = {} THEN "empty"
                  ELSE "loop"
         /\ todo' = IF r.raised = "no" /\ r.value # None THEN r.value ELSE {}
  /\ UNCHANGED <<fsvars, categories, clvars, ldvars>>

\* perform_organization is called on the target directory
StartRun(dry) == perform_organization(dry) /\ UNCHANGED shvars

\* lines 103-119: the listing mode
list_available_files ==
  /\ pc = "idle" \/ Returned
  /\ run' = run
  /\ prev' = IF pc = "idle" THEN NoPrev ELSE Remember
  /\ is_dry_run' = TRUE
  /\ fs_start' = Snapshot
  /\ outside' = 0
  /\ after_failure' = FALSE
  /\ records' = NoRecords
  /\ todo' = {}
  /\ LET r == get_files_to_organize(target_kind, top_files, script_here)
     IN  /\ files_to_organize' = r.value
         /\ pc' = IF r.raised # "no" THEN "raised"
                  ELSE IF r.value = None THEN "notfound"
                  ELSE "listed"
  /\ UNCHANGED <<fsvars, categories, clvars, ldvars>>

\* list_available_files is called on the target directory
ListFiles == list_available_files /\ UNCHANGED shvars

FailureKinds ==
  {"skipped-exists", "error-permission", "error-not-found", "error-other"}
ErrorKinds == FailureKinds \ {"skipped-exists"}

Record(name, r) ==
  [n \in DOMAIN records \cup {name} |-> IF n = name THEN r ELSE records[n]]

\* lines 151-215: one iteration of the loop, for the next file of the scan
\* (the scan's order is the file system's, so any remaining file may be next)
ProcessFile(name) ==
  /\ pc = "loop"
  /\ name \in todo
  /\ todo' = todo \ {name}
  /\ after_failure' = (\/ after_failure
                        \/ \E n \in DOMAIN records : records[n].kind \in FailureKinds)
  /\ LET v == Classify(name, categories)
     IN  IF v.kind # "matched"
           THEN /\ records' = Record(name, v)
                /\ UNCHANGED <<top_files, top_dirs, sub, pc>>
         ELSE \E o \in (IF is_dry_run THEN {PlanOutcome(name, v.category)}
                                      ELSE MoveOutcomes(name, v.category)) :
                /\ top_files' = o.files
                /\ top_dirs' = o.dirs
                /\ sub' = o.below
                /\ IF o.kind = "uncaught"
                     THEN pc' = "raised" /\ UNCHANGED records
                     ELSE /\ pc' = pc
                          /\ records' = Record(name, [v EXCEPT !.kind = o.kind])
  /\ UNCHANGED <<target_kind, script_here, fault, volatile, outside, categories,
                 clvars,
                 is_dry_run, files_to_organize, run, fs_start, prev, ldvars,
                 shvars>>

\* lines 217-225: the final status message
Complete ==
  /\ pc = "loop"
  /\ todo = {}
  /\ pc' = "done"
  /\ UNCHANGED <<fsvars, outside, categories, clvars, is_dry_run,
                 files_to_organize, todo, records, run, fs_start, prev,
                 after_failure, ldvars, shvars>>

\* another process removes a file the loop has not reached yet
Vanish(name) ==
  /\ pc = "loop"
  /\ name \in volatile \cap todo \cap top_files
  /\ top_files' = top_files \ {name}
  /\ outside' = outside + 1
  /\ UNCHANGED <<target_kind, top_dirs, sub, script_here, fault, volatile,
                 categories,
                 clvars, pc, is_dry_run, files_to_organize, todo, records, run,
                 fs_start, prev, after_failure, ldvars, shvars>>

Next ==
  \/ \E dry \in BOOLEAN : StartRun(dry)
  \/ ListFiles
  \/ \E name \in AnyName : ProcessFile(name)
  \/ Complete
  \/ \E name \in AnyName : Vanish(name)

Spec == Init /\ [][Next]_vars

----------------------------------------------------------------------------
(* The classification of one file name, lines 151-165 and 212             *)

InitClassify ==
  /\ filename \in AllNames
  /\ categories \in ClassifyTables
  /\ file_ext = <<>>
  /\ verdict = NoVerdict
  /\ target_kind = "dir" /\ top_files = {filename} /\ top_dirs = {} /\ sub = {}
  /\ script_here = FALSE /\ fault = {} /\ volatile = {} /\ outside = 0
  /\ pc = "classify" /\ is_dry_run = TRUE /\ files_to_organize = {filename}
  /\ todo = {filename} /\ records = <<>> /\ run = 0
  /\ fs_start = <<>> /\ prev = <<>> /\ after_failure = FALSE
  /\ NotLoading
  /\ ShellOff

ClassifyFile ==
  /\ verdict = NoVerdict
  /\ file_ext' = FileExt(filename)
  /\ verdict' = Classify(filename, categories)
  /\ UNCHANGED <<filename, categories, target_kind, top_files, top_dirs, sub,
                 script_here, fault, volatile, outside, pc, is_dry_run, files_to_organize,
                 todo, records, run, fs_start, prev, after_failure, ldvars,
                 shvars>>

NextClassify == ClassifyFile

SpecClassify == InitClassify /\ [][NextClassify]_vars

----------------------------------------------------------------------------
(* main's menu loop, lines 244-296, and get_target_dir_from_user           *)

MaxLines == 3

\* str.strip() of a line of input
strip(s) ==
  LET I == {i \in 1..Len(s) : s[i] # " "}
  IN  IF I = {} THEN <<>>
      ELSE SubSeq(s, CHOOSE i \in I : \A j \in I : i <= j,
                     CHOOSE i \in I : \A j \in I : j <= i)

\* lines 270-276 and 288-294: the lists the choice is looked up in
Current  == {<<"1">>, <<"4">>, <<"7">>}
Parent   == {<<"2">>, <<"5">>, <<"8">>}
Specific == {<<"3">>, <<"6">>, <<"9">>}
Organize == {<<"1">>, <<"2">>, <<"3">>}
List     == {<<"4">>, <<"5">>, <<"6">>}
DryRun   == {<<"7">>, <<"8">>, <<"9">>}
Exit     == <<"1", "0">>

\* the lines a user may type at the menu: the ten choices, the exit choice
\* with blanks around it, and lines that are no choice
InputLines ==
  Current \cup Parent \cup Specific
    \cup {Exit, <<" ", "1", "0", " ">>, <<"0">>, <<"1", "1">>, <<"x">>, <<>>}

\* what may be typed at the path prompt: the target directory's path, a path
\* that does not exist, the path of a regular file
Paths == {"target", "missing", "file"}

\* os.path.isdir(path), line 230
isdir(p) == p = "target"

\* the shell is started in the target directory, which by then holds
\* categories.json and logs/ with the session's log file (lines 18-19, 58-67);
\* the directory may refuse to be listed
InitShell ==
  /\ target_kind \in {"dir", "denied"}
  /\ categories = default_categories
  /\ script_here = FALSE
  /\ top_files \in {{categories_json}, {categories_json, a_jpg},
                    {categories_json, a_jpg, g}}
  /\ sub \in {{<<logs, session_log, "pre">>},
              {<<logs, session_log, "pre">>, <<Images, a_jpg, "pre">>}}
  /\ top_dirs = {e[1] : e \in sub}
  /\ fault = {}
  /\ volatile = {}
  /\ pc = "idle"
  /\ is_dry_run = TRUE
  /\ files_to_organize = None
  /\ todo = {}
  /\ records = NoRecords
  /\ run = 0
  /\ outside = 0
  /\ after_failure = FALSE
  /\ fs_start = Snapshot
  /\ prev = NoPrev
  /\ filename = <<>> /\ file_ext = <<>> /\ verdict = NoVerdict
  /\ NotLoading
  /\ shell = "menu" /\ choice = <<>> /\ path = "none" /\ lines = 0

\* the loop is at its top, about to show the menu and read a choice
AtMenu == shell = "menu" \/ (shell = "running" /\ Returned)

\* nothing is called
NoCall ==
  UNCHANGED <<fsvars, categories, clvars, ldvars, outside, pc, is_dry_run,
              files_to_organize, todo, records, run, fs_start, prev,
              after_failure>>

\* lines 288-296 with the target directory as target_dir
Dispatch(c) ==
  \/ c \in Organize /\ perform_organization(FALSE)
  \/ c \in List     /\ list_available_files
  \/ c \in DryRun   /\ perform_organization(TRUE)

\* lines 288-296 with ".." as target_dir: the parent holds the target
\* directory and no regular file, so the scan returns the empty list
DispatchParent(c) ==
  /\ prev' = IF pc = "idle" THEN NoPrev ELSE Remember
  /\ is_dry_run' = (c \notin Organize)
  /\ fs_start' = Snapshot
  /\ outside' = 0
  /\ after_failure' = FALSE
  /\ records' = NoRecords
  /\ todo' = {}
  /\ files_to_organize' = {}
  /\ pc' = IF c \in List THEN "listed" ELSE "empty"
  /\ UNCHANGED <<fsvars, categories, clvars, ldvars, run>>

\* lines 266-296: one line is read at the menu and acted upon
ReadChoice(line) ==
  /\ AtMenu
  /\ lines < MaxLines
  /\ lines' = lines + 1
  /\ choice' = strip(line)
  /\ path' = path
  /\ LET c == strip(line)
     IN  IF c \in Current THEN shell' = "running" /\ Dispatch(c)
         ELSE IF c \in Parent THEN shell' = "running" /\ DispatchParent(c)
         ELSE IF c \in Specific THEN shell' = "path" /\ NoCall
         ELSE IF c = Exit THEN shell' = "exited" /\ NoCall
         ELSE shell' = "menu" /\ NoCall

\* lines 229-233 and 284-296: the path is read, checked and, if it names a
\* directory, handed to the function of the choice
ReadPath(p) ==
  /\ shell = "path"
  /\ lines < MaxLines
  /\ lines' = lines + 1
  /\ choice' = choice
  /\ path' = p
  /\ IF isdir(p) THEN shell' = "running" /\ Dispatch(choice)
     ELSE shell' = "menu" /\ NoCall

\* the input ends: input() raises EOFError (lines 229, 266), which nothing
\* catches
EndOfInput ==
  /\ AtMenu \/ shell = "path"
  /\ shell' = "raised"
  /\ UNCHANGED <<choice, path, lines>>
  /\ NoCall

NextShell ==
  \/ \E line \in InputLines : ReadChoice(line)
  \/ \E p \in Paths : ReadPath(p)
  \/ EndOfInput
  \/ \E name \in AnyName : ProcessFile(name)
  \/ Complete

SpecShell == InitShell /\ [][NextShell]_vars

----------------------------------------------------------------------------
(* Vocabulary of the properties: the extension as the glossary words it    *)

LastDotIndex(p) ==
  CHOOSE i \in 1..Len(p) : p[i] = "." /\ \A j \in (i + 1)..Len(p) : p[j] # "."

\* the substring from the last period to the end
LastDotSuffix(p) == IF HasDot(p) THEN SubSeq(p, LastDotIndex(p), Len(p)) ELSE <<>>

\* some character other than "." comes before the last period
DotAfterStem(p) == HasDot(p) /\ \E k \in 1..(LastDotIndex(p) - 1) : p[k] # "."

FoldCase(s) == [i \in 1..Len(s) |-> LowerChar(s[i])]

SameIgnoringCase(a, b) == FoldCase(a) = FoldCase(b)

CategoriesListing(e, table) ==
  {k \in 1..Len(table) : \E i \in 1..Len(table[k].exts) : table[k].exts[i] = e}

Matched(c) == [kind |-> "matched", category |-> c]

\* C9 as stated: whatever the case of the table's entry, a file name that
\* carries (a stem, then as its last-period suffix) an extension listed under
\* exactly one category, in any mix of case, is classified into that category.
C9_AnyTableAnyCase ==
  verdict # NoVerdict =>
    \A k \in 1..Len(categories) : \A i \in 1..Len(categories[k].exts) :
      LET e == categories[k].exts[i]
      IN  (/\ CategoriesListing(e, categories) = {k}
           /\ DotAfterStem(filename)
           /\ SameIgnoringCase(LastDotSuffix(filename), e))
          => verdict = Matched(categories[k].name)

\* C9 amended: for every LOWERCASE extension listed under exactly one
\* category, a file name that has a character other than "." before its last
\* period and whose last-period suffix equals that extension in any mix of
\* upper and lower case is classified into that one category.
C9_LowercaseEntryAnyCase ==
  verdict # NoVerdict =>
    \A k \in 1..Len(categories) : \A i \in 1..Len(categories[k].exts) :
      LET e == categories[k].exts[i]
      IN  (/\ CategoriesListing(e, categories) = {k}
           /\ e = FoldCase(e)
           /\ DotAfterStem(filename)
           /\ SameIgnoringCase(LastDotSuffix(filename), e))
          => verdict = Matched(categories[k].name)

\* an uppercase extension on the file, a lowercase entry in the table
C9_Witness ==
  /\ filename = <<"p", ".", "J">>
  /\ categories = LowerTable
  /\ verdict = Matched(Images)

\* C10 as stated: the extension used is the lowercased last-period suffix of
\* the name, whatever precedes the period; a name without "." is skipped for
\* having no extension, and a name with "." whose extension no category lists
\* is skipped as an unknown type.
C10_LastDotSuffixAlways ==
  verdict # NoVerdict =>
    /\ file_ext = FoldCase(LastDotSuffix(filename))
    /\ ~HasDot(filename) => verdict.kind = "skipped-no-extension"
    /\ (/\ HasDot(filename)
        /\ CategoriesListing(FoldCase(LastDotSuffix(filename)), categories) = {})
       => verdict.kind = "skipped-unknown-type"

\* C10 amended: the extension used is the lowercased last-period suffix
\* provided a character other than "." precedes that period; a name with no
\* ".", or with nothing but "." before its last period (".jpg", "..jpg"), has
\* no extension and is skipped for it; a name with an extension that no
\* category lists is skipped as an unknown type.
C10_SplitextExtension ==
  verdict # NoVerdict =>
    /\ file_ext = IF DotAfterStem(filename)
                    THEN FoldCase(LastDotSuffix(filename)) ELSE <<>>
    /\ ~DotAfterStem(filename) => verdict.kind = "skipped-no-extension"
    /\ (/\ DotAfterStem(filename)
        /\ CategoriesListing(FoldCase(LastDotSuffix(filename)), categories) = {})
       => verdict.kind = "skipped-unknown-type"

\* two periods and an uppercase extension: "j.p.J" is matched on ".j"
C10_Witness ==
  /\ filename = <<"j", ".", "p", ".", "J">>
  /\ file_ext = <<".", "j">>
  /\ verdict = Matched(Images)

\* the file's extension, as the code extracts it, is listed in some category
ExtensionMatches(n) ==
  /\ DotAfterStem(n)
  /\ CategoriesListing(FoldCase(LastDotSuffix(n)), categories) # {}

\* the first category, in the table's order, that lists the file's extension
CategoryOf(n) ==
  LET S == CategoriesListing(FoldCase(LastDotSuffix(n)), categories)
  IN  categories[CHOOSE k \in S : \A j \in S : k <= j].name

KindsOf(recs, kinds) == {n \in DOMAIN recs : recs[n].kind \in kinds}

InRun == pc \in {"loop", "done", "empty", "notfound"}

\* C1: a dry run changes nothing under the target directory (no folder made,
\* no file moved: the directory is as it was when the run began, but for what
\* another process removed), and every scanned file whose extension matches
\* a category gets a "planned" record, never "moved", "skipped-exists" or an
\* error record.
C1_DryRunChangesNothing ==
  (InRun /\ is_dry_run) =>
    /\ top_dirs = fs_start.dirs
    /\ sub = fs_start.below
    /\ top_files \subseteq fs_start.files
    /\ outside = 0 => Snapshot = fs_start
    /\ KindsOf(records, {"moved"} \cup FailureKinds) = {}
    /\ \A n \in DOMAIN records :
         ExtensionMatches(n) <=> records[n].kind = "planned"
    /\ pc = "done" => DOMAIN records = files_to_organize

\* the dry run of the documented example: six plans, nothing created
C1_Witness ==
  /\ pc = "done" /\ is_dry_run
  /\ fs_start.files = ExampleFiles
  /\ Cardinality(KindsOf(records, {"planned"})) = 6
  /\ top_files = ExampleFiles /\ top_dirs = {} /\ sub = {}

\* nothing stands in the way of moving file n in this run
Untroubled(n) ==
  /\ FaultOf(n) = "none"
  /\ outside = 0
  /\ \A e \in fs_start.below : e[2] # n
  /\ \A k \in 1..Len(categories) : categories[k].name \notin fs_start.files

ExampleFolders == {Images, Documents, Videos, Audio, Scripts, Archives}
ExampleMoved ==
  {<<Images, a_jpg, "top">>, <<Documents, b_pdf, "top">>, <<Videos, c_mp4, "top">>,
   <<Audio, d_mp3, "top">>, <<Scripts, e_py, "top">>, <<Archives, f_zip, "top">>}

\* C2: after a real run, every matched file whose move met no failure or
\* collision has a "moved" record, lies in the folder of its category (which
\* exists) and no longer in the target directory; a file without extension
\* or of unknown type has its skip record and is still in place; and the
\* documented example ends with six "moved" records, the six folders with
\* one file each, and g and h.xyz alone in the directory.
C2_RealRunMovesMatched ==
  (~is_dry_run /\ pc = "done") =>
    /\ \A n \in files_to_organize :
         /\ n \in DOMAIN records
         /\ records[n].kind = "moved" =>
              /\ ExtensionMatches(n)
              /\ records[n].category = CategoryOf(n)
              /\ <<CategoryOf(n), n, "top">> \in sub
              /\ CategoryOf(n) \in top_dirs
              /\ n \notin top_files
         /\ ExtensionMatches(n) => records[n].kind \in {"moved"} \cup FailureKinds
         /\ (ExtensionMatches(n) /\ Untroubled(n)) => records[n].kind = "moved"
         /\ ~ExtensionMatches(n) =>
              /\ records[n].kind = IF DotAfterStem(n) THEN "skipped-unknown-type"
                                                      ELSE "skipped-no-extension"
              /\ outside = 0 => n \in top_files
    /\ (fs_start = [files |-> ExampleFiles, dirs |-> {}, below |-> {}]
        /\ categories = default_categories /\ outside = 0) =>
         /\ KindsOf(records, {"moved"}) = ExampleFiles \ {g, h_xyz}
         /\ records[g].kind = "skipped-no-extension"
         /\ records[h_xyz].kind = "skipped-unknown-type"
         /\ Snapshot = [files |-> {g, h_xyz}, dirs |-> ExampleFolders,
                        below |-> ExampleMoved]

\* the real run of the documented example has completed
C2_Witness ==
  /\ pc = "done" /\ ~is_dry_run /\ outside = 0
  /\ fs_start = [files |-> ExampleFiles, dirs |-> {}, below |-> {}]
  /\ top_files = {g, h_xyz}
  /\ Cardinality(KindsOf(records, {"moved"})) = 6

\* C3: a failure on one file never ends the run: while the loop runs, every
\* scanned file is either recorded or still to come and whatever the move
\* of a file to come raises is caught and recorded; at the final message
\* every scanned file has its record;
\* an exception leaves the run only before the loop, out of the scan.
C3_FullScanCompletion ==
  /\ pc = "loop" =>
       /\ DOMAIN records \cup todo = files_to_organize
       /\ DOMAIN records \cap todo = {}
       /\ \A n \in todo :
            Classify(n, categories).kind = "matched" =>
              LET O == MoveOutcomes(n, Classify(n, categories).category)
              IN  O # {} /\ \A o \in O : o.kind # "uncaught"
  /\ pc = "done" => DOMAIN records = files_to_organize /\ todo = {}
  /\ pc = "raised" => files_to_organize = None /\ records = NoRecords

\* a real run has completed in which a file failed with an OS error and
\* other files were handled after a failure, one of them moved
C3_Witness ==
  /\ pc = "done" /\ ~is_dry_run /\ after_failure
  /\ KindsOf(records, {"error-other"}) # {}
  /\ KindsOf(records, {"moved"}) # {}

\* C4: in a real run, a matched file whose name was already in its
\* category's folder gets a "skipped-exists" record, stays in the target
\* directory (unless another process removes it), and the entry that was in
\* the folder is still the only one of that name.
C4_CollisionSkipped ==
  (~is_dry_run /\ pc \in {"loop", "done"}) =>
    \A n \in DOMAIN records : \A e \in fs_start.below :
      (ExtensionMatches(n) /\ e[1] = CategoryOf(n) /\ e[2] = n) =>
        /\ records[n] = [kind |-> "skipped-exists", category |-> CategoryOf(n)]
        /\ {x \in sub : x[1] = e[1] /\ x[2] = n} = {e}
        /\ outside = 0 => n \in top_files

\* a.jpg was in Images already: skipped, both files where they were
C4_Witness ==
  /\ pc = "done" /\ ~is_dry_run /\ outside = 0
  /\ a_jpg \in DOMAIN records /\ records[a_jpg].kind = "skipped-exists"
  /\ <<Images, a_jpg, "pre">> \in sub
  /\ a_jpg \in top_files

SecondRealRun ==
  /\ run >= 2 /\ ~is_dry_run /\ ~prev.dry
  /\ prev.pc \in {"done", "empty"} /\ pc \in {"done", "empty"}
  /\ outside = 0

C8_ScanNeverRaises ==
  pc # "idle" =>
    /\ target_kind # "dir" => files_to_organize = None /\ pc = "notfound"
    /\ target_kind = "dir" => files_to_organize # None /\ pc # "raised"
    /\ (target_kind = "dir" /\ fs_start.files = {}) => files_to_organize = {}

\* C6: whatever the state of categories.json, load_categories raises
\* nothing and returns a category table, a mapping of names to lists of
\* extensions.
C6_LoadAlwaysReturnsTable ==
  load_pc \notin {"idle", "start"} =>
    /\ load_pc = "returned"
    /\ loaded.kind = "table"

\* C7: when categories.json exists and does not parse, load_categories
\* returns the built-in default table and the file still exists with the
\* content it had; a file that exists is never rewritten by the load.
C7_MalformedGivesDefaultFileKept ==
  (load_pc \notin {"idle", "start"} /\ config_before.exists) =>
    /\ config_exists /\ config_content = config_before.content
    /\ config_before.content.kind = "malformed" =>
         /\ load_pc = "returned"
         /\ loaded = Json("table", default_categories)

\* a readable file of malformed JSON has been loaded
C7_Witness ==
  /\ load_pc = "returned"
  /\ config_before = [exists |-> TRUE, readable |-> TRUE,
                      content |-> Json("malformed", <<>>)]
  /\ loaded = Json("table", default_categories)
  /\ config_content = Json("malformed", <<>>)

\* the entries that moves of this program put one level below: the folders
\* holding a moved file of name n
FoldersHolding(n) == {e[1] : e \in {x \in sub : x[2] = n /\ x[3] = "top"}}

\* C11: the first match wins, in the table's stored order: a file whose
\* extension is listed under one or more categories is recorded under the
\* category that comes first in the table, a dry run plans it for that
\* category, a real run moves it into that category's folder, and no file is
\* ever moved into the folder of another category or into two folders.
C11_FirstMatchWins ==
  pc \in {"loop", "done"} =>
    /\ \A n \in DOMAIN records :
         /\ ExtensionMatches(n) <=> records[n].category # NoCategory
         /\ ExtensionMatches(n) =>
              /\ records[n].category = CategoryOf(n)
              /\ FoldersHolding(n) \subseteq {CategoryOf(n)}
              /\ records[n].kind = "moved" => FoldersHolding(n) = {CategoryOf(n)}
              /\ records[n].kind = "planned" => is_dry_run
    /\ \A n \in AnyName : Cardinality(FoldersHolding(n)) <= 1

\* r.csv is listed under Data and, later in the table, under Spreadsheets,
\* whose folder held an r.csv already: the real run moved it into Data
C11_Witness ==
  /\ pc = "done" /\ ~is_dry_run
  /\ Cardinality(CategoriesListing(<<".","c","s","v">>, categories)) = 2
  /\ r_csv \in DOMAIN records
  /\ records[r_csv] = [kind |-> "moved", category |-> Data]
  /\ {x \in sub : x[2] = r_csv} =
       {<<Data, r_csv, "top">>, <<Spreadsheets, r_csv, "pre">>}

\* the loop of main has been left, by the break or by an exception
LeftLoop == shell \in {"exited", "raised"} \/ (shell = "running" /\ pc = "raised")

\* a line has just been read at the menu that is none of the ten choices
InvalidChoiceRead ==
  /\ lines' = lines + 1
  /\ shell # "path"
  /\ choice' \notin Current \cup Parent \cup Specific \cup {Exit}

\* a path has just been read that does not name an existing directory
BadPathRead ==
  /\ lines' = lines + 1
  /\ shell = "path"
  /\ path' \in {"missing", "file"}

\* the step goes back to the menu and calls neither the scanner, nor the
\* lister, nor the mover
BackToMenuOnly ==
  /\ shell' = "menu"
  /\ Snapshot' = Snapshot
  /\ <<pc, run, files_to_organize, todo, records, fs_start, prev>>' =
       <<pc, run, files_to_organize, todo, records, fs_start, prev>>

\* the loop is left only on the choice "10"
C12_ExitOnlyOnTen == [](LeftLoop => choice = Exit)

\* an invalid choice or a bad path only leads back to the menu
C12_InvalidInputReturnsToMenu ==
  [][(InvalidChoiceRead \/ BadPathRead) => BackToMenuOnly]_vars

\* the file system changes only under an "organize" choice
C12_OnlyOrganizeMutates ==
  [][Snapshot' # Snapshot => (choice \in Organize /\ ~is_dry_run)]_vars

\* C12: for every sequence of input lines the shell leaves its loop only
\* when the choice "10" is read; an invalid menu choice, or a "specific
\* folder" choice followed by a path that is no existing directory, returns
\* to the menu without calling the scanner, the lister or the mover and
\* without any change of the file system; the list and dry-run choices never
\* change the file system, only the choices 1-3 can move files.
C12_ShellLoop ==
  /\ C12_ExitOnlyOnTen
  /\ C12_InvalidInputReturnsToMenu
  /\ C12_OnlyOrganizeMutates

\* where the file that was n in the target directory when the run began is
\* now: still there ("."), and the folders it has been put into since
PlacesOf(n) ==
  (IF n \in top_files THEN {<<".">>} ELSE {})
    \cup {e[1] : e \in {x \in sub \ fs_start.below : x[2] = n}}

\* C13: no file is lost, duplicated or overwritten: with no other process
\* at work, at every point of a real run or a dry run every file that was in
\* the target directory when the run began exists exactly once, either where
\* it was or in the folder of the category it classifies to; every file that
\* was inside a folder is still there, untouched; no folder disappears; and
\* nothing else appears below the target directory.
C13_NoFileLostOrDuplicated ==
  (InRun /\ volatile = {}) =>
    /\ \A n \in fs_start.files :
         /\ Cardinality(PlacesOf(n)) = 1
         /\ n \notin top_files =>
              ExtensionMatches(n) /\ PlacesOf(n) = {CategoryOf(n)}
    /\ top_files \subseteq fs_start.files
    /\ fs_start.below \subseteq sub
    /\ fs_start.dirs \subseteq top_dirs
    /\ \A e \in sub \ fs_start.below : e[2] \in fs_start.files /\ e[3] = "top"

====
